---------------------------- MODULE Spec2Model ----------------------------
(***************************************************************************)
(* Model of the customer-churn pipeline:                                   *)
(*   - src/src/validation/validate_data.py : the schema registry, the      *)
(*     validator validate(df), get_latest_file and the merger main();      *)
(*   - src/pipeline_orchestrator.py : STEPS, run_step and main().          *)
(*                                                                         *)
(* CSV files and pandas frames are modelled by what the code does with     *)
(* them: a file is a header (sequence of column names) and rows of cells;  *)
(* pd.read_csv infers one dtype per column and converts the cells,         *)
(* pd.concat unions the columns and finds a common dtype, DataFrame.to_csv *)
(* writes the cells back as text.                                          *)
(***************************************************************************)
EXTENDS Integers, Sequences, FiniteSets, TLC

VARIABLES
    master,       \* MASTER_PATH: <<>> when the file is absent, <<file>> when present
    static_dir,   \* STATIC_RAW_PATH/*static_data.csv, oldest first
    live_dir,     \* LIVE_RAW_PATH/*live_data.csv, oldest first
    cwd_live_dir, \* the names of the files in data/raw/live/ under a working
                  \* directory other than <repo>/src, where ingestion writes
                  \* when started there; no step reads these files back
    ingests,      \* number of generate_live_data calls so far
    reports,      \* REPORT_PATH: file name -> report written under that name
    clock,        \* wall clock in whole seconds (strftime('%Y-%m-%d_%H-%M-%S'))
    version_log,  \* the changelog of every log_data_version call, in order
    pc,           \* position of validate_data.main(): "idle" between runs
    frames,       \* main()'s local data frames and reports
    run,          \* history of the current (or last finished) run of main()
    prev,         \* history of the run before it
    runs,         \* number of runs of main() started
    validations,  \* number of validate calls of main() that returned a report
    vin,          \* validator harness: the frame handed to validate
    vout,         \* validator harness: what validate gave back
    opc,          \* orchestrator: "init", "running", "exited"
    step_no,      \* orchestrator: index into STEPS of the step being run
    started,      \* orchestrator: the tasks started so far, in order
    runs_before,  \* orchestrator: value of runs when the current step's
                  \* subprocess was started
    results,      \* orchestrator: return code of each step's subprocess, in order
    exit_code,    \* orchestrator: process exit status (-1 while running)
    olog          \* orchestrator: the logging calls made so far

vars == <<master, static_dir, live_dir, cwd_live_dir, ingests, reports, clock,
          version_log, pc, frames,
          run, prev, runs, validations, vin, vout, opc, step_no, started,
          runs_before, results, exit_code, olog>>

mergerVars == <<master, static_dir, live_dir, cwd_live_dir, ingests, reports,
                clock, version_log, pc,
                frames, run, prev, runs, validations>>
harnessVars == <<vin, vout>>
orchVars == <<opc, step_no, started, runs_before, results, exit_code, olog>>

(***************************************************************************)
(* Bounds of the model.                                                    *)
(***************************************************************************)
MaxRows == 2     \* rows per batch handed to the validator harness
MaxRuns == 2     \* runs of validate_data.main() in one behaviour
MaxIngests == 1  \* calls of generate_live_data
MaxClock == 1    \* last clock second a run can observe

SeqToSet(s) == {s[i] : i \in DOMAIN s}

(***************************************************************************)
(* Cells.  A CSV cell is empty (null), an integer literal, a float literal *)
(* (only whole floats n.0 are modelled) or other text.  In a frame, a      *)
(* column of dtype object that was parsed from text holds Python strings:  *)
(* the string of an integer literal ("istr") or of a float literal         *)
(* ("fstr") is not equal to the number it spells.                          *)
(***************************************************************************)
Null == [k |-> "null", n |-> 0, s |-> ""]
I(n) == [k |-> "int", n |-> n, s |-> ""]
F(n) == [k |-> "float", n |-> n, s |-> ""]
S(s) == [k |-> "str", n |-> 0, s |-> s]
IStr(n) == [k |-> "istr", n |-> n, s |-> ""]
FStr(n) == [k |-> "fstr", n |-> n, s |-> ""]

IsNull(c) == c.k = "null"
IsNumber(c) == c.k \in {"int", "float"}
IsText(c) == c.k \in {"str", "istr", "fstr"}

\* Python ==/hash on two non-null cell values: 1 == 1.0, "1" != 1.
PyEq(a, b) == IF IsNumber(a) /\ IsNumber(b) THEN a.n = b.n ELSE a = b

(***************************************************************************)
(* The schema registry.                                                    *)
(***************************************************************************)
SchemaCols ==
    << "customerID", "gender", "SeniorCitizen", "Partner", "Dependents",
       "tenure", "PhoneService", "MultipleLines", "InternetService",
       "OnlineSecurity", "OnlineBackup", "DeviceProtection", "TechSupport",
       "StreamingTV", "StreamingMovies", "Contract", "PaperlessBilling",
       "PaymentMethod", "MonthlyCharges", "TotalCharges", "Churn" >>

EXPECTED_SCHEMA ==
    [c \in SeqToSet(SchemaCols) |->
        IF c \in {"SeniorCitizen", "tenure"} THEN "int64"
        ELSE IF c \in {"MonthlyCharges", "TotalCharges"} THEN "float64"
        ELSE "object"]

CategoryCols ==
    << "gender", "SeniorCitizen", "Partner", "Dependents", "PhoneService",
       "MultipleLines", "InternetService", "OnlineSecurity", "OnlineBackup",
       "DeviceProtection", "TechSupport", "StreamingTV", "StreamingMovies",
       "Contract", "PaperlessBilling", "PaymentMethod", "Churn" >>

EXPECTED_CATEGORIES ==
    [c \in SeqToSet(CategoryCols) |->
        CASE c = "gender" -> {S("Male"), S("Female")}
          [] c = "SeniorCitizen" -> {I(0), I(1)}
          [] c \in {"Partner", "Dependents", "PhoneService", "PaperlessBilling",
                    "Churn"} -> {S("Yes"), S("No")}
          [] c = "MultipleLines" -> {S("Yes"), S("No"), S("No phone service")}
          [] c = "InternetService" -> {S("DSL"), S("Fiber optic"), S("No")}
          [] c \in {"OnlineSecurity", "OnlineBackup", "DeviceProtection",
                    "TechSupport", "StreamingTV", "StreamingMovies"}
                -> {S("Yes"), S("No"), S("No internet service")}
          [] c = "Contract" -> {S("Month-to-month"), S("One year"), S("Two year")}
          [] c = "PaymentMethod"
                -> {S("Electronic check"), S("Mailed check"),
                    S("Bank transfer (automatic)"), S("Credit card (automatic)")}]

RangeCols == << "tenure", "MonthlyCharges", "TotalCharges" >>

EXPECTED_RANGES ==
    [c \in SeqToSet(RangeCols) |->
        CASE c = "tenure" -> [low |-> 0, high |-> 100]
          [] c = "MonthlyCharges" -> [low |-> 0, high |-> 1000]
          [] c = "TotalCharges" -> [low |-> 0, high |-> 100000]]

(***************************************************************************)
(* pandas: frames, read_csv, concat, to_csv.                               *)
(* A file is [cols, rows]; a frame is [cols, dtype, rows]; a row maps each *)
(* column name to a cell.                                                  *)
(***************************************************************************)
ColumnOf(rows, c) == [i \in DOMAIN rows |-> rows[i][c]]

\* The dtype pd.read_csv infers for one column of text cells.
InferDtype(cells) ==
    IF Len(cells) = 0 THEN "object"
    ELSE IF \E i \in DOMAIN cells : cells[i].k = "str" THEN "object"
    ELSE IF \E i \in DOMAIN cells : cells[i].k \in {"float", "null"} THEN "float64"
    ELSE "int64"

\* The value read_csv stores for a text cell in a column of dtype dt.
ParseCell(c, dt) ==
    IF dt = "object" THEN
        (IF c.k = "int" THEN IStr(c.n) ELSE IF c.k = "float" THEN FStr(c.n) ELSE c)
    ELSE IF dt = "float64" /\ c.k = "int" THEN F(c.n)
    ELSE c

read_csv(file) ==
    LET names == SeqToSet(file.cols)
        dt == [c \in names |-> InferDtype(ColumnOf(file.rows, c))]
    IN  [cols |-> file.cols,
         dtype |-> dt,
         rows |-> [i \in DOMAIN file.rows |->
                     [c \in names |-> ParseCell(file.rows[i][c], dt[c])]]]

\* The text DataFrame.to_csv writes for a value: a string that spells a
\* number is written as that number's literal.
WriteCell(c) ==
    IF c.k = "istr" THEN I(c.n) ELSE IF c.k = "fstr" THEN F(c.n) ELSE c

to_csv(df) ==
    [cols |-> df.cols,
     rows |-> [i \in DOMAIN df.rows |->
                 [c \in SeqToSet(df.cols) |-> WriteCell(df.rows[i][c])]]]

\* numpy's common dtype of two columns.
CommonDtype(a, b) ==
    IF a = b THEN a
    ELSE IF a = "object" \/ b = "object" THEN "object"
    ELSE "float64"

\* The value a cell takes when its column is cast to dtype dt by concat.
CastCell(c, dt) == IF dt = "float64" /\ c.k = "int" THEN F(c.n) ELSE c

\* pd.concat([a, b]): outer join of the columns (a's first, then b's new
\* ones), a column missing from one frame is filled with NaN there.
concat(a, b) ==
    LET an == SeqToSet(a.cols)
        bn == SeqToSet(b.cols)
        cols == a.cols \o SelectSeq(b.cols, LAMBDA c : c \notin an)
        Filled(d) == IF d = "int64" THEN "float64" ELSE d
        dt == [c \in an \cup bn |->
                 IF c \in an /\ c \in bn THEN CommonDtype(a.dtype[c], b.dtype[c])
                 ELSE IF c \in an THEN Filled(a.dtype[c])
                 ELSE Filled(b.dtype[c])]
        Row(r, have) == [c \in an \cup bn |->
                           IF c \in have THEN CastCell(r[c], dt[c]) ELSE Null]
    IN  [cols |-> cols,
         dtype |-> dt,
         rows |-> [i \in DOMAIN a.rows |-> Row(a.rows[i], an)]
                  \o [i \in DOMAIN b.rows |-> Row(b.rows[i], bn)]]

(***************************************************************************)
(* validate(df).  The result is [raised, error, report]: the report is the *)
(* sequence of (Check, Status, Details) rows; Details is [text, vals],     *)
(* vals being the set an f-string prints after the text.                   *)
(***************************************************************************)
Detail(text) == [text |-> text, vals |-> {}]
ReportRow(check, status, details) ==
    [Check |-> check, Status |-> status, Details |-> details]

TypeRow(df, col) ==
    LET expected_type == EXPECTED_SCHEMA[col]
    IN  IF col \in SeqToSet(df.cols) THEN
            LET actual_type == df.dtype[col]
                status == IF actual_type = expected_type THEN "Pass" ELSE "Fail"
                details ==
                    IF status = "Fail"
                    THEN col \o " type " \o actual_type \o ", expected " \o expected_type
                    ELSE col \o " type " \o actual_type \o " is correct"
            IN  ReportRow("Type - " \o col, status, Detail(details))
        ELSE ReportRow("Type - " \o col, "Fail", Detail("Missing column"))

TypeRows(df) == [i \in DOMAIN SchemaCols |-> TypeRow(df, SchemaCols[i])]

NullCount(df, col) == Cardinality({i \in DOMAIN df.rows : IsNull(df.rows[i][col])})

MissingRow(df, col) ==
    LET cnt == NullCount(df, col)
        status == IF cnt = 0 THEN "Pass" ELSE "Fail"
        details == IF status = "Pass" THEN "No missing values"
                   ELSE ToString(cnt) \o " missing values"
    IN  ReportRow("Missing - " \o col, status, Detail(details))

MissingRows(df) == [i \in DOMAIN df.cols |-> MissingRow(df, df.cols[i])]

\* Faulty variant: the duplicate check never finds anything.
HasDuplicatesUnchecked(cells) == FALSE

\* Series.duplicated().any(): a later row holds a value equal to an earlier
\* one (NaN counts as equal to NaN).
HasDuplicates(cells) ==
    \E i, j \in DOMAIN cells :
        /\ i < j
        /\ \/ IsNull(cells[i]) /\ IsNull(cells[j])
           \/ ~IsNull(cells[i]) /\ ~IsNull(cells[j]) /\ PyEq(cells[i], cells[j])

NullIdRow(df) ==
    IF \E i \in DOMAIN df.rows : IsNull(df.rows[i]["customerID"])
    THEN ReportRow("Integrity - Null ID", "Fail", Detail("Null customerID found"))
    ELSE ReportRow("Integrity - Null ID", "Pass", Detail("No null customerIDs"))

DuplicateRow(df) ==
    IF HasDuplicates(ColumnOf(df.rows, "customerID"))
    THEN ReportRow("Integrity - Duplicates", "Fail", Detail("Duplicate customerID found"))
    ELSE ReportRow("Integrity - Duplicates", "Pass", Detail("No duplicate customerIDs"))

IntegrityRows(df) == << NullIdRow(df), DuplicateRow(df) >>

\* df[col] < low raises TypeError when the column holds a Python string.
RangeRaises(df, col) == \E i \in DOMAIN df.rows : IsText(df.rows[i][col])

\* Faulty variant: the bounds taken as exclusive.
RangeRowExclusive(df, col) ==
    LET low == EXPECTED_RANGES[col].low
        high == EXPECTED_RANGES[col].high
        below == Cardinality({i \in DOMAIN df.rows :
                    IsNumber(df.rows[i][col]) /\ df.rows[i][col].n <= low})
        above == Cardinality({i \in DOMAIN df.rows :
                    IsNumber(df.rows[i][col]) /\ df.rows[i][col].n >= high})
        status == IF below = 0 /\ above = 0 THEN "Pass" ELSE "Fail"
    IN  ReportRow("Range - " \o col, status, Detail(""))

RangeRow(df, col) ==
    LET low == EXPECTED_RANGES[col].low
        high == EXPECTED_RANGES[col].high
        below == Cardinality({i \in DOMAIN df.rows :
                    IsNumber(df.rows[i][col]) /\ df.rows[i][col].n < low})
        above == Cardinality({i \in DOMAIN df.rows :
                    IsNumber(df.rows[i][col]) /\ df.rows[i][col].n > high})
        status == IF below = 0 /\ above = 0 THEN "Pass" ELSE "Fail"
        details ==
            IF status = "Fail"
            THEN ToString(below) \o " below " \o ToString(low) \o ", "
                 \o ToString(above) \o " above " \o ToString(high)
            ELSE "All values within " \o ToString(low) \o "-" \o ToString(high)
    IN  ReportRow("Range - " \o col, status, Detail(details))

RangeRows(df) ==
    LET present == SelectSeq(RangeCols, LAMBDA c : c \in SeqToSet(df.cols))
    IN  [i \in DOMAIN present |-> RangeRow(df, present[i])]

DomainRow(df, col) ==
    IF col \in SeqToSet(df.cols) THEN
        LET expected_vals == EXPECTED_CATEGORIES[col]
            invalid_vals ==
                {v \in {df.rows[i][col] : i \in DOMAIN df.rows} :
                    ~IsNull(v) /\ ~\E e \in expected_vals : PyEq(v, e)}
            status == IF invalid_vals # {} THEN "Fail" ELSE "Pass"
            details == IF status = "Fail"
                       THEN [text |-> "Invalid values: ", vals |-> invalid_vals]
                       ELSE Detail("All values valid")
        IN  ReportRow("Domain - " \o col, status, details)
    ELSE ReportRow("Domain - " \o col, "Fail", Detail("Column missing"))

DomainRows(df) == [i \in DOMAIN CategoryCols |-> DomainRow(df, CategoryCols[i])]

Raised(error) == [raised |-> TRUE, error |-> error, report |-> << >>]
Returned(report) == [raised |-> FALSE, error |-> "", report |-> report]

validate(df) ==
    IF "customerID" \notin SeqToSet(df.cols) THEN Raised("KeyError")
    ELSE IF \E i \in DOMAIN RangeCols :
                /\ RangeCols[i] \in SeqToSet(df.cols)
                /\ RangeRaises(df, RangeCols[i])
    THEN Raised("TypeError")
    ELSE Returned(TypeRows(df) \o MissingRows(df) \o IntegrityRows(df)
                  \o RangeRows(df) \o DomainRows(df))

\* (report_df["Status"] == "Fail").any()
AnyFail(report) == \E i \in DOMAIN report : report[i].Status = "Fail"


(***************************************************************************)
(* Input batches.  ValidRow is a record every check accepts; the other     *)
(* rows change one cell of it.                                             *)
(***************************************************************************)
ValidRow(id) ==
    [c \in SeqToSet(SchemaCols) |->
        CASE c = "customerID" -> id
          [] c = "gender" -> S("Male")
          [] c = "SeniorCitizen" -> I(0)
          [] c = "tenure" -> I(1)
          [] c = "InternetService" -> S("DSL")
          [] c = "Contract" -> S("Month-to-month")
          [] c = "PaymentMethod" -> S("Electronic check")
          [] c \in {"MonthlyCharges", "TotalCharges"} -> F(29)
          [] OTHER -> S("No")]

With(row, col, cell) == [c \in DOMAIN row \cup {col} |-> IF c = col THEN cell ELSE row[c]]

Without(row, col) == [c \in DOMAIN row \ {col} |-> row[c]]

ExtraCol == "Region"

\* A file with the registry's header and the given rows.
RegistryFile(rows) == [cols |-> SchemaCols, rows |-> rows]

\* The same file with one column left out of the header and of every row.
DropColumn(file, col) ==
    [cols |-> SelectSeq(file.cols, LAMBDA c : c # col),
     rows |-> [i \in DOMAIN file.rows |-> Without(file.rows[i], col)]]

\* The same file with one more column, holding the given cell in every row.
AddColumn(file, col, cell) ==
    [cols |-> file.cols \o << col >>,
     rows |-> [i \in DOMAIN file.rows |-> With(file.rows[i], col, cell)]]

SeqsUpTo(pool, n) == UNION {[1..k -> pool] : k \in 0..n}

\* Rows with one value at, or one unit beyond, a bound of EXPECTED_RANGES.
BoundaryRows ==
    {With(ValidRow(S("C")), "tenure", I(v)) : v \in {-1, 0, 100, 101}}
    \cup {With(ValidRow(S("C")), "MonthlyCharges", F(v)) : v \in {-1, 0, 1000, 1001}}
    \cup {With(ValidRow(S("C")), "TotalCharges", F(v)) : v \in {-1, 0, 100000, 100001}}

\* Rows with a null, an unlisted category or text in a numeric column.
FaultyRows ==
    { With(ValidRow(S("C")), "customerID", Null),
      With(ValidRow(S("C")), "tenure", Null),
      With(ValidRow(S("C")), "gender", S("Other")),
      With(ValidRow(S("C")), "TotalCharges", S(" ")) }

SchemaRows == {ValidRow(S("A")), ValidRow(S("B"))} \cup FaultyRows
RangeRowsPool == {ValidRow(S("A"))} \cup BoundaryRows

\* The batches the validator harness is run on: every header that is the
\* registry's, lacks one registry column, or has one extra column.
HarnessFiles ==
    LET base == {RegistryFile(rows) : rows \in SeqsUpTo(SchemaRows, MaxRows)}
    IN  base
        \cup {DropColumn(f, SchemaCols[i]) : f \in base, i \in DOMAIN SchemaCols}
        \cup {AddColumn(f, ExtraCol, I(7)) : f \in base}
        \cup {RegistryFile(rows) : rows \in SeqsUpTo(RangeRowsPool, MaxRows)}

(***************************************************************************)
(* The validator harness: validate applied to one frame read from a file.  *)
(***************************************************************************)
NotCalled == [raised |-> FALSE, error |-> "not called", report |-> << >>]

MergerIdle ==
    /\ master = << >> /\ static_dir = << >> /\ live_dir = << >>
    /\ cwd_live_dir = {} /\ ingests = 0
    /\ reports = << >> /\ clock = 0 /\ version_log = << >>
    /\ pc = "idle" /\ frames = << >> /\ run = << >> /\ prev = << >>
    /\ runs = 0 /\ validations = 0

OrchIdle ==
    /\ opc = "init" /\ step_no = 0 /\ started = << >> /\ results = << >>
    /\ runs_before = 0
    /\ exit_code = -1 /\ olog = << >>

HarnessIdle == vin = << >> /\ vout = NotCalled

InitValidate ==
    /\ \E f \in HarnessFiles : vin = << read_csv(f) >>
    /\ vout = NotCalled
    /\ MergerIdle
    /\ OrchIdle

CallValidate ==
    /\ vin # << >>
    /\ vout = NotCalled
    /\ vout' = validate(vin[1])
    /\ UNCHANGED << vin, mergerVars, orchVars >>

NextValidate == CallValidate

SpecValidate == InitValidate /\ [][NextValidate]_vars


(***************************************************************************)
(* The merger: validate_data.main().                                       *)
(***************************************************************************)
\* Files the static snapshot directory can hold when the merger first runs.
StaticIds == RegistryFile(<< ValidRow(S("A")), ValidRow(S("B")) >>)
StaticNumericIds == RegistryFile(<< ValidRow(I(1)) >>)
StaticFiles == { StaticIds, StaticNumericIds, AddColumn(StaticIds, ExtraCol, S("North")) }

\* Files the live directory can hold when the merger first runs.
LiveFiles ==
    { RegistryFile(<< ValidRow(S("C")) >>),
      RegistryFile(<< ValidRow(S("A")) >>),
      RegistryFile(<< ValidRow(S("D")), ValidRow(I(1)) >>),
      RegistryFile(<< With(ValidRow(S("E")), "tenure", I(101)) >>),
      DropColumn(RegistryFile(<< ValidRow(S("C")) >>), "customerID"),
      AddColumn(RegistryFile(<< ValidRow(S("C")) >>), ExtraCol, S("South")) }

\* Batches generate_live_data can write: rows over the columns of the data
\* set it loads, a fresh text customerID each, every other value drawn from
\* that data set's values, which the registry may or may not admit.
GeneratedFiles ==
    { RegistryFile(<< ValidRow(S("C")) >>),
      RegistryFile(<< With(ValidRow(S("E")), "tenure", I(101)) >>) }

NoReports == [f \in {} |-> << >>]

NoFrames ==
    [static_df |-> << >>, live_df |-> << >>, master_df |-> << >>,
     combined_df |-> << >>, new_master |-> << >>,
     report_df |-> << >>, live_report |-> << >>, combined_report |-> << >>]

\* History of one run of main(): what it found, each validate call it made
\* (what: "live" or "combined"; fail: the report has a "Fail" row), the
\* report files it wrote, whether it wrote the master, how long the version
\* log was when it started, and how it ended.
NoRun ==
    [branch |-> "", status |-> "none", master_before |-> << >>,
     static_file |-> << >>, live_file |-> << >>, calls |-> << >>,
     saved |-> << >>, overwrote |-> FALSE, wrote |-> FALSE, log_before |-> 0]

NewRun(branch) ==
    [NoRun EXCEPT !.branch = branch, !.status = "running", !.master_before = master,
                  !.log_before = Len(version_log)]

\* A directory is the sequence of its entries [name, file] matching the
\* glob pattern, ordered by os.path.getctime, oldest first.
Entry(name, f) == [name |-> name, file |-> f]

\* df.to_csv(filename) into a directory: creates the entry, or replaces the
\* entry of that name; either way the file written is now the newest.
WriteFile(dir, name, f) ==
    SelectSeq(dir, LAMBDA e : e.name # name) \o << Entry(name, f) >>

\* get_latest_file: max(files, key=os.path.getctime) is the last entry; no
\* matching file raises FileNotFoundError.
get_latest_file(dir) ==
    IF Len(dir) = 0 THEN [raised |-> TRUE, file |-> << >>]
    ELSE [raised |-> FALSE, file |-> << dir[Len(dir)].file >>]

\* The directories a process of the pipeline can be started in, and the
\* directory validate_data reads live batches from (lines 14-17: BASE_PATH
\* is the parent of the validation package, whatever the working directory).
WorkingDirs == {"<repo>", "<repo>/src"}
LIVE_RAW_PATH == "<repo>/src/data/raw/live"

\* ingest_live.py line 54: raw_dir is the relative path "data/raw/live/",
\* resolved against the working directory of the process.
raw_dir(cwd) == cwd \o "/data/raw/live"

\* ingest_live.py line 56: the file name carries the time to the second.
LiveFileName(t) == ToString(t) \o " live_data.csv"

\* datetime.now().strftime('%Y-%m-%d_%H-%M-%S') + suffix, under REPORT_PATH.
ReportName(t, suffix) == ToString(t) \o "_validation_report_" \o suffix \o ".csv"

\* report.to_csv(filename): creates the file or replaces the one of that name.
SaveReport(name, report) ==
    [f \in DOMAIN reports \cup {name} |-> IF f = name THEN report ELSE reports[f]]

\* Faulty variant: the test of line 163 inverted.
MasterNotCreatedInverted(report_df) == ~AnyFail(report_df)

\* Faulty variant: the early return of lines 189-191 left out.
SkipUpdateNever(live_report) == FALSE

\* Faulty variant: only the first row of the report is looked at.
MasterNotUpdatedFirstRow(combined_report) == combined_report[1].Status = "Fail"

\* The decisions main() takes on a report: lines 163, 189 and 199.
MasterNotCreated(report_df) == AnyFail(report_df)
SkipUpdate(live_report) == AnyFail(live_report)
MasterNotUpdated(combined_report) == AnyFail(combined_report)

\* An exception leaves main(): the run is over, its locals are gone.
Raise(r) ==
    /\ run' = [r EXCEPT !.status = "raised"]
    /\ frames' = NoFrames
    /\ pc' = "idle"

Init ==
    /\ master = << >>
    /\ static_dir \in {<< >>} \cup {<< Entry("static_data.csv", f) >> : f \in StaticFiles}
    /\ live_dir \in {<< >>} \cup {<< Entry("live_data.csv", f) >> : f \in LiveFiles}
    /\ cwd_live_dir = {}
    /\ ingests = 0
    /\ reports = NoReports
    /\ clock = 0
    /\ version_log = << >>
    /\ pc = "idle"
    /\ frames = NoFrames
    /\ run = NoRun
    /\ prev = NoRun
    /\ runs = 0
    /\ validations = 0
    /\ HarnessIdle
    /\ OrchIdle

\* generate_live_data, lines 53-57: the batch is written under the name of
\* the current second into data/raw/live/ of the working directory.  The
\* merger finds it only when that directory is LIVE_RAW_PATH, that is when
\* the process was started in <repo>/src; started anywhere else the file
\* lands in a directory main() never reads.  Ingestion happens between runs
\* of the merger.
Ingest ==
    /\ pc = "idle"
    /\ runs < MaxRuns
    /\ ingests < MaxIngests
    /\ ingests' = ingests + 1
    /\ \E f \in GeneratedFiles, cwd \in WorkingDirs, now \in clock..MaxClock :
          /\ clock' = now
          /\ IF raw_dir(cwd) = LIVE_RAW_PATH
             THEN /\ live_dir' = WriteFile(live_dir, LiveFileName(now), f)
                  /\ UNCHANGED cwd_live_dir
             ELSE /\ cwd_live_dir' = cwd_live_dir \cup {LiveFileName(now)}
                  /\ UNCHANGED live_dir
    /\ UNCHANGED << master, static_dir, reports, version_log, pc, frames,
                    run, prev, runs, validations, harnessVars, orchVars >>

\* Lines 145-156: the master is absent; load the newest static and live
\* files and concatenate them.
StartA ==
    /\ pc = "idle"
    /\ runs < MaxRuns
    /\ master = << >>
    /\ runs' = runs + 1
    /\ prev' = run
    /\ LET static_file == get_latest_file(static_dir)
           live_file == get_latest_file(live_dir)
       IN  IF static_file.raised THEN Raise(NewRun("A"))
           ELSE IF live_file.raised
           THEN Raise([NewRun("A") EXCEPT !.static_file = static_file.file])
           ELSE LET static_df == read_csv(static_file.file[1])
                    live_df == read_csv(live_file.file[1])
                IN  /\ frames' = [NoFrames EXCEPT
                                    !.static_df = << static_df >>,
                                    !.live_df = << live_df >>,
                                    !.combined_df = << concat(static_df, live_df) >>]
                    /\ run' = [NewRun("A") EXCEPT !.static_file = static_file.file,
                                                  !.live_file = live_file.file]
                    /\ pc' = "A_validate"
    /\ UNCHANGED << master, static_dir, live_dir, cwd_live_dir, ingests, reports,
                    clock, version_log,
                    validations, harnessVars, orchVars >>

\* Line 157.
ValidateA ==
    /\ pc = "A_validate"
    /\ LET result == validate(frames.combined_df[1])
       IN  IF result.raised
           THEN /\ Raise([run EXCEPT !.calls = Append(@,
                            [what |-> "combined", returned |-> FALSE, fail |-> FALSE])])
                /\ UNCHANGED validations
           ELSE /\ frames' = [frames EXCEPT !.report_df = << result.report >>]
                /\ run' = [run EXCEPT !.calls = Append(@,
                            [what |-> "combined", returned |-> TRUE,
                             fail |-> AnyFail(result.report)])]
                /\ validations' = validations + 1
                /\ pc' = "A_save"
    /\ UNCHANGED << master, static_dir, live_dir, cwd_live_dir, ingests, reports,
                    clock, version_log,
                    prev, runs, harnessVars, orchVars >>

\* Lines 159-161: the report goes to a file named after the current second.
SaveReportA ==
    /\ pc = "A_save"
    /\ \E now \in clock..MaxClock :
          LET filename == ReportName(now, "combined")
          IN  /\ clock' = now
              /\ reports' = SaveReport(filename, frames.report_df[1])
              /\ run' = [run EXCEPT !.saved = Append(@, filename),
                                    !.overwrote = @ \/ filename \in DOMAIN reports]
    /\ pc' = "A_decide"
    /\ UNCHANGED << master, static_dir, live_dir, cwd_live_dir, ingests,
                    version_log, frames, prev, runs,
                    validations, harnessVars, orchVars >>

\* Lines 163-173.
DecideA ==
    /\ pc = "A_decide"
    /\ IF MasterNotCreated(frames.report_df[1])
       THEN /\ run' = [run EXCEPT !.status = "returned"]
            /\ UNCHANGED << master, version_log >>
       ELSE /\ master' = << to_csv(frames.combined_df[1]) >>
            /\ version_log' = Append(version_log, "Created master data with static + live")
            /\ run' = [run EXCEPT !.status = "returned", !.wrote = TRUE]
    /\ frames' = NoFrames
    /\ pc' = "idle"
    /\ UNCHANGED << static_dir, live_dir, cwd_live_dir, ingests, reports, clock,
                    prev, runs, validations,
                    harnessVars, orchVars >>

\* Lines 175-181: the master is present; load it and the newest live file.
StartB ==
    /\ pc = "idle"
    /\ runs < MaxRuns
    /\ master # << >>
    /\ runs' = runs + 1
    /\ prev' = run
    /\ LET live_file == get_latest_file(live_dir)
       IN  IF live_file.raised THEN Raise(NewRun("B"))
           ELSE /\ frames' = [NoFrames EXCEPT
                                !.master_df = << read_csv(master[1]) >>,
                                !.live_df = << read_csv(live_file.file[1]) >>]
                /\ run' = [NewRun("B") EXCEPT !.live_file = live_file.file]
                /\ pc' = "B_validate_live"
    /\ UNCHANGED << master, static_dir, live_dir, cwd_live_dir, ingests, reports,
                    clock, version_log,
                    validations, harnessVars, orchVars >>

\* Line 184.
ValidateLive ==
    /\ pc = "B_validate_live"
    /\ LET result == validate(frames.live_df[1])
       IN  IF result.raised
           THEN /\ Raise([run EXCEPT !.calls = Append(@,
                            [what |-> "live", returned |-> FALSE, fail |-> FALSE])])
                /\ UNCHANGED validations
           ELSE /\ frames' = [frames EXCEPT !.live_report = << result.report >>]
                /\ run' = [run EXCEPT !.calls = Append(@,
                            [what |-> "live", returned |-> TRUE,
                             fail |-> AnyFail(result.report)])]
                /\ validations' = validations + 1
                /\ pc' = "B_save_live"
    /\ UNCHANGED << master, static_dir, live_dir, cwd_live_dir, ingests, reports,
                    clock, version_log,
                    prev, runs, harnessVars, orchVars >>

\* Lines 185-187.
SaveLiveReport ==
    /\ pc = "B_save_live"
    /\ \E now \in clock..MaxClock :
          LET filename == ReportName(now, "live")
          IN  /\ clock' = now
              /\ reports' = SaveReport(filename, frames.live_report[1])
              /\ run' = [run EXCEPT !.saved = Append(@, filename),
                                    !.overwrote = @ \/ filename \in DOMAIN reports]
    /\ pc' = "B_decide_live"
    /\ UNCHANGED << master, static_dir, live_dir, cwd_live_dir, ingests,
                    version_log, frames, prev, runs,
                    validations, harnessVars, orchVars >>

\* Lines 189-193: return on a failed live report, else concatenate.
DecideLive ==
    /\ pc = "B_decide_live"
    /\ IF SkipUpdate(frames.live_report[1])
       THEN /\ run' = [run EXCEPT !.status = "returned"]
            /\ frames' = NoFrames
            /\ pc' = "idle"
       ELSE /\ frames' = [frames EXCEPT
                            !.new_master = << concat(frames.master_df[1], frames.live_df[1]) >>]
            /\ pc' = "B_validate_combined"
            /\ UNCHANGED run
    /\ UNCHANGED << master, static_dir, live_dir, cwd_live_dir, ingests, reports,
                    clock, version_log,
                    prev, runs, validations, harnessVars, orchVars >>

\* Line 194.
ValidateCombined ==
    /\ pc = "B_validate_combined"
    /\ LET result == validate(frames.new_master[1])
       IN  IF result.raised
           THEN /\ Raise([run EXCEPT !.calls = Append(@,
                            [what |-> "combined", returned |-> FALSE, fail |-> FALSE])])
                /\ UNCHANGED validations
           ELSE /\ frames' = [frames EXCEPT !.combined_report = << result.report >>]
                /\ run' = [run EXCEPT !.calls = Append(@,
                            [what |-> "combined", returned |-> TRUE,
                             fail |-> AnyFail(result.report)])]
                /\ validations' = validations + 1
                /\ pc' = "B_save_combined"
    /\ UNCHANGED << master, static_dir, live_dir, cwd_live_dir, ingests, reports,
                    clock, version_log,
                    prev, runs, harnessVars, orchVars >>

\* Lines 195-197.
SaveCombinedReport ==
    /\ pc = "B_save_combined"
    /\ \E now \in clock..MaxClock :
          LET filename == ReportName(now, "combined")
          IN  /\ clock' = now
              /\ reports' = SaveReport(filename, frames.combined_report[1])
              /\ run' = [run EXCEPT !.saved = Append(@, filename),
                                    !.overwrote = @ \/ filename \in DOMAIN reports]
    /\ pc' = "B_decide_combined"
    /\ UNCHANGED << master, static_dir, live_dir, cwd_live_dir, ingests,
                    version_log, frames, prev, runs,
                    validations, harnessVars, orchVars >>

\* Lines 199-209.
DecideCombined ==
    /\ pc = "B_decide_combined"
    /\ IF MasterNotUpdated(frames.combined_report[1])
       THEN /\ run' = [run EXCEPT !.status = "returned"]
            /\ UNCHANGED << master, version_log >>
       ELSE /\ master' = << to_csv(frames.new_master[1]) >>
            /\ version_log' = Append(version_log, "Updated master with new live data")
            /\ run' = [run EXCEPT !.status = "returned", !.wrote = TRUE]
    /\ frames' = NoFrames
    /\ pc' = "idle"
    /\ UNCHANGED << static_dir, live_dir, cwd_live_dir, ingests, reports, clock,
                    prev, runs, validations,
                    harnessVars, orchVars >>

Next ==
    \/ Ingest
    \/ StartA \/ ValidateA \/ SaveReportA \/ DecideA
    \/ StartB \/ ValidateLive \/ SaveLiveReport \/ DecideLive
    \/ ValidateCombined \/ SaveCombinedReport \/ DecideCombined

Spec == Init /\ [][Next]_vars


(***************************************************************************)
(* The orchestrator: pipeline_orchestrator.py.                             *)
(***************************************************************************)
STEPS ==
    << [task |-> "INGESTION", script |-> "src.ingestion.ingest_data"],
       [task |-> "VALIDATION", script |-> "src.validation.validate_data"],
       [task |-> "PREPARATION", script |-> "src.preparation.prepare_data"],
       [task |-> "TRANSFORMATION_AND_STORAGE",
        script |-> "src.transformation_and_storage.transform_and_store_data"],
       [task |-> "MODEL_BUILDING", script |-> "src.model_building.model_building"] >>

\* What a step's subprocess can give back: its return code and whether it
\* printed to stdout and stderr.
ReturnCodes == {0, 1, 2}
Outputs == {"", "output"}

\* Faulty variant: check=True left out, no return code raises.
StepFailedUnchecked(returncode) == FALSE

\* subprocess.run(..., check=True) raises CalledProcessError on a non-zero
\* return code.
StepFailed(returncode) == returncode # 0

LogLine(level, msg) == [level |-> level, msg |-> msg]

\* run_step's logging of a successful step: stdout as info and stderr as
\* warning, each only when not empty.
StepOutputLog(stdout, stderr) ==
    (IF stdout # "" THEN << LogLine("info", stdout) >> ELSE << >>)
    \o (IF stderr # "" THEN << LogLine("warning", stderr) >> ELSE << >>)

\* What an earlier run of the pipeline left behind when it created the
\* master from a static and a live batch: the master file, that run's
\* report and its version-log entry.
NoEarlierRun == [master |-> << >>, reports |-> NoReports, version_log |-> << >>]

EarlierRun ==
    LET combined_df == concat(read_csv(StaticIds),
                              read_csv(RegistryFile(<< ValidRow(S("D")) >>)))
    IN  [master |-> << to_csv(combined_df) >>,
         reports |-> [f \in {"earlier_validation_report_combined.csv"} |->
                         validate(combined_df).report],
         version_log |-> << "Created master data with static + live" >>]

\* The orchestrator process starts on what earlier runs left on disk.
InitOrch ==
    /\ OrchIdle
    /\ HarnessIdle
    /\ \E earlier \in {NoEarlierRun, EarlierRun} :
          /\ master = earlier.master
          /\ reports = earlier.reports
          /\ version_log = earlier.version_log
    /\ static_dir \in {<< >>, << Entry("static_data.csv", StaticIds) >>}
    /\ live_dir \in {<< >>} \cup {<< Entry("live_data.csv", f) >> : f \in GeneratedFiles}
    /\ cwd_live_dir = {}
    /\ ingests = 0
    /\ clock = 0
    /\ pc = "idle"
    /\ frames = NoFrames
    /\ run = NoRun
    /\ prev = NoRun
    /\ runs = 0
    /\ validations = 0

\* Lines 21-30: importing the pipeline modules.  ModuleNotFoundError is
\* logged and re-raised; any other exception a module raises while it is
\* imported passes the except clause unlogged.  Either ends the process
\* as an uncaught exception, with status 1.
ImportModules ==
    /\ opc = "init"
    /\ \E outcome \in {"imported", "ModuleNotFoundError", "Exception"} :
          IF outcome = "imported"
          THEN /\ opc' = "imported"
               /\ UNCHANGED << exit_code, olog >>
          ELSE /\ opc' = "exited"
               /\ exit_code' = 1
               /\ olog' = IF outcome = "ModuleNotFoundError"
                          THEN Append(olog, LogLine("error",
                                          "Failed to import pipeline modules"))
                          ELSE olog
    /\ UNCHANGED << step_no, started, runs_before, results, mergerVars, harnessVars >>

\* Line 69.
BeginPipeline ==
    /\ opc = "imported"
    /\ olog' = Append(olog, LogLine("info", "INITIATING PIPELINE"))
    /\ step_no' = 0
    /\ opc' = "loop"
    /\ UNCHANGED << started, runs_before, results, exit_code, mergerVars, harnessVars >>

\* Lines 71-73 and 48-49: the loop takes the next step and calls
\* subprocess.run on its module.
StartStep ==
    /\ opc = "loop"
    /\ step_no < Len(STEPS)
    /\ LET task == STEPS[step_no + 1].task
           script == STEPS[step_no + 1].script
       IN  /\ olog' = Append(olog, LogLine("info",
                        "STEP " \o ToString(step_no + 1) \o "/" \o ToString(Len(STEPS))
                        \o " - " \o task \o " - " \o script))
           /\ started' = Append(started, task)
    /\ runs_before' = runs
    /\ opc' = "step"
    /\ UNCHANGED << step_no, results, exit_code, mergerVars, harnessVars >>

\* The subprocess of the step being run is `python -m` on the merger's
\* module, whose last lines call main().
RunsMerger ==
    /\ opc = "step"
    /\ STEPS[step_no + 1].script = "src.validation.validate_data"

\* The subprocess of the VALIDATION step runs validate_data.main() once.
MainInSubprocess ==
    /\ RunsMerger
    /\ \/ /\ runs = runs_before
          /\ StartA \/ StartB
       \/ ValidateA \/ SaveReportA \/ DecideA
       \/ ValidateLive \/ SaveLiveReport \/ DecideLive
       \/ ValidateCombined \/ SaveCombinedReport \/ DecideCombined

\* The return codes the subprocess of the current step can end with.  The
\* merger's module ends with 0 when main() returned and with 1, as an
\* uncaught exception, when main() raised or the module failed before
\* calling it;
\* the other steps' modules are not among the modelled sources: a step of
\* theirs is the return code and the output it ends with.
ChildReturnCodes ==
    IF ~RunsMerger THEN ReturnCodes
    ELSE IF runs = runs_before THEN {1}
    ELSE IF run.status = "returned" THEN {0}
    ELSE {1}

\* Lines 48-63: subprocess.run either raises because the interpreter could
\* not be started (an OSError, which run_step does not catch, ends the
\* process) or gives the ended subprocess back; a non-zero return code is
\* logged and the process exits with status 1, otherwise the loop goes on.
FinishStep ==
    /\ opc = "step"
    /\ pc = "idle"
    /\ \E spawned \in BOOLEAN :
          IF ~spawned
          THEN /\ runs = runs_before
               /\ exit_code' = 1
               /\ opc' = "exited"
               /\ UNCHANGED << results, olog, step_no >>
          ELSE \E returncode \in ChildReturnCodes, stdout \in Outputs, stderr \in Outputs :
                  /\ results' = Append(results, returncode)
                  /\ IF StepFailed(returncode)
                     THEN /\ olog' = Append(olog, LogLine("error",
                                      "Step " \o STEPS[step_no + 1].script
                                      \o " failed with error: \n" \o stderr))
                          /\ exit_code' = 1
                          /\ opc' = "exited"
                          /\ UNCHANGED step_no
                     ELSE /\ olog' = olog \o StepOutputLog(stdout, stderr)
                          /\ step_no' = step_no + 1
                          /\ opc' = "loop"
                          /\ UNCHANGED exit_code
    /\ UNCHANGED << started, runs_before, mergerVars, harnessVars >>

\* Line 75 and the normal end of the process.
EndPipeline ==
    /\ opc = "loop"
    /\ step_no = Len(STEPS)
    /\ olog' = Append(olog, LogLine("info", "PIPELINE RUN SUCCESSFUL"))
    /\ exit_code' = 0
    /\ opc' = "exited"
    /\ UNCHANGED << step_no, started, runs_before, results, mergerVars, harnessVars >>

NextOrch ==
    \/ ImportModules \/ BeginPipeline \/ StartStep \/ MainInSubprocess
    \/ FinishStep \/ EndPipeline

SpecOrch == InitOrch /\ [][NextOrch]_vars


(***************************************************************************)
(* Properties.                                                             *)
(***************************************************************************)
ColSet(f) == SeqToSet(f.cols)
RegistryCols == SeqToSet(SchemaCols)
RowOf(report, check) == CHOOSE r \in SeqToSet(report) : r.Check = check
HasRow(report, check) == \E r \in SeqToSet(report) : r.Check = check
AllPass(result) == ~result.raised /\ ~AnyFail(result.report)
PassesAlone(file) == AllPass(validate(read_csv(file)))
RunFinished(r) == r.status \in {"returned", "raised"}
SawFail(r) == \E i \in DOMAIN r.calls : r.calls[i].fail
\* log_data_version calls made by the current run so far.
Logged == Len(version_log) - run.log_before

\* C8: the orchestrator starts INGESTION, VALIDATION, PREPARATION,
\* TRANSFORMATION_AND_STORAGE, MODEL_BUILDING in that order, starts a step
\* only after every earlier step returned 0, starts nothing after the first
\* failed step (a non-zero return code, or a subprocess that could not be
\* started) and then exits non-zero, and exits 0 only after five successful
\* steps.
C8_StepsInOrderStopOnFailure ==
    LET order == << "INGESTION", "VALIDATION", "PREPARATION",
                    "TRANSFORMATION_AND_STORAGE", "MODEL_BUILDING" >>
    IN  /\ Len(started) <= 5
        /\ started = SubSeq(order, 1, Len(started))
        /\ Len(results) <= Len(started)
        /\ \A i \in DOMAIN started :
              \A j \in 1..(i - 1) : j <= Len(results) /\ results[j] = 0
        /\ \A i \in DOMAIN results :
              results[i] # 0 =>
                 /\ i = Len(started)
                 /\ opc = "exited"
                 /\ exit_code \notin {0, -1}
        /\ Len(results) < Len(started) =>
              /\ Len(results) = Len(started) - 1
              /\ opc \in {"step", "exited"}
              /\ opc = "exited" => exit_code = 1
        /\ (opc = "exited") <=> (exit_code # -1)
        /\ exit_code = 0 => /\ Len(results) = 5
                            /\ \A i \in DOMAIN results : results[i] = 0

\* C8 witness: the third step failed after two successful ones and the
\* process exited with status 1 without starting the fourth.
C8_Witness ==
    /\ opc = "exited"
    /\ exit_code = 1
    /\ results = << 0, 0, 2 >>
    /\ started = << "INGESTION", "VALIDATION", "PREPARATION" >>

\* The validator harness has called validate on its frame.
Validated == vin # << >> /\ vout # NotCalled

\* Every non-null value of the column lies in the closed registry range.
AllWithin(df, col) ==
    \A i \in DOMAIN df.rows :
        LET v == df.rows[i][col]
        IN  IsNull(v) \/ (EXPECTED_RANGES[col].low <= v.n /\ v.n <= EXPECTED_RANGES[col].high)

\* C9: for every registry numeric column of a batch, the range check row of
\* the report is "Pass" exactly when every (non-null) value of the column
\* lies in [min, max], bounds included.
C9_RangeCheckInclusive ==
    (Validated /\ ~vout.raised) =>
        \A i \in DOMAIN RangeCols :
            LET col == RangeCols[i]
            IN  col \in ColSet(vin[1]) =>
                  /\ HasRow(vout.report, "Range - " \o col)
                  /\ (RowOf(vout.report, "Range - " \o col).Status = "Pass")
                        <=> AllWithin(vin[1], col)

\* C9 witness: a batch with tenure exactly at the maximum 100, which passes,
\* and MonthlyCharges one unit above the maximum 1000, which fails.
C9_Witness ==
    /\ Validated
    /\ ~vout.raised
    /\ ColSet(vin[1]) = RegistryCols
    /\ \E i \in DOMAIN vin[1].rows : vin[1].rows[i]["tenure"] = I(100)
    /\ \E i \in DOMAIN vin[1].rows : vin[1].rows[i]["MonthlyCharges"] = F(1001)
    /\ RowOf(vout.report, "Range - tenure").Status = "Pass"
    /\ RowOf(vout.report, "Range - MonthlyCharges").Status = "Fail"

\* The frame with one more column that holds a valid value of the registry.
Completed(df, col) ==
    [cols |-> df.cols \o << col >>,
     dtype |-> [c \in ColSet(df) \cup {col} |->
                  IF c = col THEN EXPECTED_SCHEMA[col] ELSE df.dtype[c]],
     rows |-> [i \in DOMAIN df.rows |->
                 With(df.rows[i], col,
                      IF col = "customerID" THEN S("ID-" \o ToString(i))
                      ELSE ValidRow(Null)[col])]]

\* The rows of a report about one column.
RowsAbout(report, col) ==
    {r \in SeqToSet(report) :
        r.Check \in {"Type - " \o col, "Missing - " \o col, "Range - " \o col,
                     "Domain - " \o col}}

\* What C4 says of a frame that lacks the registry column col.
MissingColumnReported(df, result, col) ==
    /\ ~result.raised
    /\ RowOf(result.report, "Type - " \o col).Status = "Fail"
    /\ RowOf(result.report, "Type - " \o col).Details = Detail("Missing column")
    /\ col \in SeqToSet(CategoryCols) =>
          /\ RowOf(result.report, "Domain - " \o col).Status = "Fail"
          /\ RowOf(result.report, "Domain - " \o col).Details = Detail("Column missing")
    /\ LET whole == validate(Completed(df, col))
       IN  \A other \in ColSet(df) :
              RowsAbout(result.report, other) = RowsAbout(whole.report, other)

LacksOnly(df, col) == ColSet(df) = RegistryCols \ {col}

\* No numeric column of the frame holds text, so no range comparison raises.
NumbersComparable(df) ==
    \A i \in DOMAIN RangeCols :
        RangeCols[i] \in ColSet(df) => ~RangeRaises(df, RangeCols[i])

\* C4: for a batch that lacks any one registry column, customerID included,
\* validate returns a report (it does not raise) whose type row (and domain
\* row, for a categorical column) of that column is "Fail" with detail
\* "Missing column" ("Column missing"), the rows about the other columns
\* being what they are with the column present.  Stated for the batches
\* whose numeric columns hold no text.
C4_MissingColumnReported ==
    (Validated /\ NumbersComparable(vin[1])) =>
        \A col \in RegistryCols :
            LacksOnly(vin[1], col) => MissingColumnReported(vin[1], vout, col)

\* The same statement for every registry column but customerID.
MissingColumnReportedExceptCustomerID ==
    (Validated /\ NumbersComparable(vin[1])) =>
        \A col \in RegistryCols \ {"customerID"} :
            LacksOnly(vin[1], col) => MissingColumnReported(vin[1], vout, col)

\* C1: in every run of main(), in either branch, once a validation report
\* of the run holds a "Fail" row the master file is what it was before the
\* run (absent or the same content) and log_data_version is not called.
C1_FailedValidationLeavesMaster ==
    SawFail(run) =>
        /\ master = run.master_before
        /\ ~run.wrote
        /\ Logged = 0

\* C1 witness: a run that found the master present got a failing combined
\* report after a passing live report, and returned.
C1_Witness ==
    /\ run.branch = "B"
    /\ run.status = "returned"
    /\ Len(run.calls) = 2
    /\ ~run.calls[1].fail
    /\ run.calls[2].fail
    /\ master = run.master_before

\* C7: with the master present the live batch is validated alone first; a
\* failing live report ends the run with that one report saved, no combined
\* validation and no master write; the combined validation and the write
\* come only after an all-pass live report.
C7_LiveValidatedFirst ==
    run.branch = "B" =>
        /\ Len(run.calls) >= 1 => run.calls[1].what = "live"
        /\ frames.new_master # << >> =>
              /\ frames.live_report # << >>
              /\ ~AnyFail(frames.live_report[1])
        /\ (Len(run.calls) >= 1 /\ run.calls[1].fail) =>
              /\ Len(run.calls) = 1
              /\ ~run.wrote
              /\ master = run.master_before
              /\ Len(run.saved) <= 1
              /\ RunFinished(run) =>
                    /\ Len(run.saved) = 1
                    /\ \E at \in 0..clock : run.saved[1] = ReportName(at, "live")
        /\ Len(run.calls) >= 2 =>
              /\ Len(run.calls) = 2
              /\ run.calls[1].returned /\ ~run.calls[1].fail
              /\ run.calls[2].what = "combined"
        /\ run.wrote =>
              /\ Len(run.calls) = 2
              /\ ~run.calls[1].fail
              /\ ~run.calls[2].fail

\* C7 witness: a run with the master present stopped at a failing live
\* report.
C7_Witness ==
    /\ run.branch = "B"
    /\ run.status = "returned"
    /\ Len(run.calls) = 1
    /\ run.calls[1].fail
    /\ Len(run.saved) = 1
    /\ master # << >>

\* C6: every validation report of main() goes to a file of its own and no
\* report file is ever overwritten: between runs the number of report files
\* is the number of validate calls that returned a report.
C6_ReportsNeverOverwritten ==
    /\ ~run.overwrote
    /\ pc = "idle" => Cardinality(DOMAIN reports) = validations

\* C5: a batch whose column set is not the registry's gets a report with a
\* "Fail" row (seen at each point where main() holds a report), so the
\* master never holds such a batch.
C5_OnlyRegistryColumnsPass ==
    /\ (frames.report_df # << >> /\ ColSet(frames.combined_df[1]) # RegistryCols)
          => AnyFail(frames.report_df[1])
    /\ (frames.live_report # << >> /\ ColSet(frames.live_df[1]) # RegistryCols)
          => AnyFail(frames.live_report[1])
    /\ (frames.combined_report # << >> /\ ColSet(frames.new_master[1]) # RegistryCols)
          => AnyFail(frames.combined_report[1])
    /\ master # << >> => ColSet(master[1]) = RegistryCols

\* The customerID texts of a file.
Ids(file) == {file.rows[i]["customerID"] : i \in DOMAIN file.rows}

\* A run found the master absent and returned, and the static and the live
\* batch it loaded each pass every check alone.
ValidPairMerged ==
    /\ run.branch = "A"
    /\ run.status = "returned"
    /\ PassesAlone(run.static_file[1])
    /\ PassesAlone(run.live_file[1])

\* The run created the master with the rows of both batches and logged one
\* version.
MasterCreatedFromBoth ==
    /\ master # << >>
    /\ Len(master[1].rows) = Len(run.static_file[1].rows) + Len(run.live_file[1].rows)
    /\ Logged = 1

\* C3 as claimed: with the master absent and a static and a live batch that
\* each pass alone, the run creates the master with the rows of both and
\* logs one version.
C3_ValidBatchesCreateMaster == ValidPairMerged => MasterCreatedFromBoth

\* C3 amended: the same when, in addition, the two batches have the same
\* columns and no customerID in common.
C3_DisjointValidBatchesCreateMaster ==
    ( /\ ValidPairMerged
      /\ ColSet(run.static_file[1]) = ColSet(run.live_file[1])
      /\ Ids(run.static_file[1]) \cap Ids(run.live_file[1]) = {} )
    => MasterCreatedFromBoth

\* C3 witness: such a run has created the master.
C3_Witness ==
    /\ ValidPairMerged
    /\ ColSet(run.static_file[1]) = ColSet(run.live_file[1])
    /\ Ids(run.static_file[1]) \cap Ids(run.live_file[1]) = {}
    /\ run.wrote
    /\ Len(master[1].rows) = 3

\* A run merged a live batch and the next run, now over, found the same
\* live batch as the newest.
RerunSameLive ==
    /\ prev.wrote
    /\ RunFinished(run)
    /\ run.live_file = prev.live_file

\* How many rows of the file hold the given customerID.
CountId(file, id) == Cardinality({i \in DOMAIN file.rows : file.rows[i]["customerID"] = id})

\* C2 as claimed: the second of two runs on the same live batch updates the
\* master again and logs a version, the master then holding the live rows
\* twice.
C2_RerunAppendsAgain ==
    RerunSameLive =>
        /\ run.wrote
        /\ Logged = 1
        /\ \A id \in Ids(run.live_file[1]) : CountId(master[1], id) >= 2

\* C2 amended: the second run leaves the master as the first wrote it and
\* logs nothing; when the live batch passes alone, it is the combined
\* report's duplicate check that fails.
C2_RerunLeavesMaster ==
    RerunSameLive =>
        /\ ~run.wrote
        /\ master = run.master_before
        /\ Logged = 0
        /\ Len(run.saved) = 2 =>
              RowOf(reports[run.saved[2]], "Integrity - Duplicates").Status = "Fail"

\* C2 witness: the second run got as far as the combined report and
\* returned.
C2_Witness ==
    /\ RerunSameLive
    /\ run.status = "returned"
    /\ Len(run.calls) = 2
    /\ run.calls[2].fail

\* C10: whenever the master is present its content passes every check of
\* validate, a run that writes it writes the rows it started from (the
\* static batch when the master was absent) followed by the live rows, and
\* the master's row count never decreases.
C10_MasterAlwaysValid ==
    /\ master # << >> => PassesAlone(master[1])
    /\ run.wrote =>
          LET before == IF run.branch = "A" THEN run.static_file ELSE run.master_before
          IN  Len(master[1].rows) = Len(before[1].rows) + Len(run.live_file[1].rows)
    /\ (master # << >> /\ run.master_before # << >>) =>
          Len(master[1].rows) >= Len(run.master_before[1].rows)

=============================================================================
